---- MODULE Spec2Model ----
(***************************************************************************)
(* The Kagi API client (KagiAPI) and the MCP tool adapter (KagiServer).    *)
(* State: the client object built by the constructor, the client calls    *)
(* that have issued their HTTP request and await its settlement, the       *)
(* number of HTTP requests each call in progress has put on the wire, and  *)
(* the most recently settled call as its caller observes it.               *)
(***************************************************************************)
EXTENDS Integers, Sequences, FiniteSets, TLC

VARIABLES client, calls, wire, settled

vars == <<client, calls, wire, settled>>

(***************************************************************************)
(* JavaScript values.  Every value is a record of the same shape so that   *)
(* values of different JavaScript types can be compared.  Numbers are the  *)
(* integers: JSON carries no NaN and no Infinity.                          *)
(***************************************************************************)
JS(t, s, n) == [t |-> t, s |-> s, n |-> n]

Undef == JS("undefined", "", 0)

Null == JS("null", "", 0)

Str(s) == JS("string", s, 0)

Num(n) == JS("number", "", n)

Bool(b) == JS("boolean", "", IF b THEN 1 ELSE 0)

Truthy(v) ==
    CASE v.t = "string" -> v.s # ""
      [] v.t = "number" -> v.n # 0
      [] v.t = "boolean" -> v.n = 1
      [] v.t = "object" -> TRUE
      [] OTHER -> FALSE

\* a || b
OrElse(a, b) == IF Truthy(a) THEN a ELSE b

\* String(v) and `${v}` for the values that reach them
StringOf(v) ==
    CASE v.t = "string" -> v.s
      [] v.t = "boolean" -> IF v.n = 1 THEN "true" ELSE "false"
      [] v.t = "null" -> "null"
      [] OTHER -> "undefined"

(***************************************************************************)
(* HTTP bodies, errors and results.                                        *)
(***************************************************************************)
Body(kind, shape, message) == [kind |-> kind, shape |-> shape, message |-> message]

\* no body at all: the value undefined
NoBody == Body("none", "", Undef)

\* a body of the operation's response type: {meta, data, error?}
OkBody == Body("json", "response", Undef)

\* a 2xx body that is no JSON: the transport hands it on as the raw string
UnparsableBody == Body("text", "", Undef)

\* a 2xx body that is JSON but not of the response type
WrongShapeBody == Body("json", "other", Undef)

\* a non-2xx body that is an HTML page, not JSON
HtmlBody == Body("text", "html", Undef)

\* data?.message
MessageOf(body) == IF body.kind = "json" THEN body.message ELSE Undef

\* error.response: the HTTP response an error carries, when one was received
Response(present, status, data) == [present |-> present, status |-> status, data |-> data]

NoResponse == Response(FALSE, 0, NoBody)

Err(cls, message, code, details, response) ==
    [cls |-> cls, message |-> message, code |-> code, details |-> details,
     response |-> response]

NoErr == Err("none", Undef, Undef, NoBody, NoResponse)

\* class KagiError extends Error
KagiError(message, code, details) == Err("KagiError", message, code, details, NoResponse)

\* new Error(message)
PlainError(message) == Err("Error", Str(message), Undef, NoBody, NoResponse)

\* new McpError(ErrorCode.<code>, message)
McpError(code, message) == Err("McpError", Str(message), Str(code), NoBody, NoResponse)

\* the error the transport rejects with
AxiosError(message, response) == Err("AxiosError", Str(message), Undef, NoBody, response)

Value(shape, body, bool, text, isError) ==
    [shape |-> shape, body |-> body, bool |-> bool, text |-> text, isError |-> isError]

NoValue == Value("none", NoBody, FALSE, "", FALSE)

Resolved(v) == [kind |-> "resolved", value |-> v, error |-> NoErr]

Rejected(e) == [kind |-> "rejected", value |-> NoValue, error |-> e]

NoOutcome == [kind |-> "none", value |-> NoValue, error |-> NoErr]

(***************************************************************************)
(* The client object.                                                      *)
(***************************************************************************)
DEFAULT_BASE_URL == "https://kagi.com/api/v0"

DEFAULT_TIMEOUT == 30000

DEFAULT_LIMIT == 10

MIN_LIMIT == 1

MAX_LIMIT == 100

\* KagiConfig: {apiKey, baseURL?, timeout?}
Config(apiKey, baseURL, timeout) ==
    [apiKey |-> apiKey, baseURL |-> baseURL, timeout |-> timeout]

\* the client: the configuration the constructor was given, the error it threw,
\* the arguments of axios.create (baseURL, timeout, headers), how many times
\* axios.create was called and how many response interceptors are registered
Client(state, config, conn, error, baseURL, timeout, auth, ctype, created, interceptors) ==
    [state |-> state, config |-> config, conn |-> conn, error |-> error,
     baseURL |-> baseURL, timeout |-> timeout, authorization |-> auth,
     contentType |-> ctype, created |-> created, interceptors |-> interceptors]

NoClient ==
    Client("none", Config(Undef, Undef, Undef), "none", NoErr, Undef, Undef, "", "", 0, 0)

\* a variant that only rejects an absent key: config.apiKey === undefined
ApiKeyUndefined(config) == config.apiKey = Undef

\* !config.apiKey
ApiKeyMissing(config) == ~Truthy(config.apiKey)

BaseURLOf(config) == OrElse(config.baseURL, Str(DEFAULT_BASE_URL))

TimeoutOf(config) == OrElse(config.timeout, Num(DEFAULT_TIMEOUT))

AuthorizationOf(config) == "Bot " \o StringOf(config.apiKey)

\* this.client.interceptors.response.use(...) is called this many times
InterceptorUses == 1

\* new KagiAPI(config), with axios.create answering with a connection conn
NewKagiAPI(config, conn) ==
    IF ApiKeyMissing(config)
    THEN Client("failed", config, "none", PlainError("API key is required"),
                Undef, Undef, "", "", 0, 0)
    ELSE Client("ready", config, conn, NoErr, BaseURLOf(config), TimeoutOf(config),
                AuthorizationOf(config), "application/json", 1, InterceptorUses)

(***************************************************************************)
(* The transport: what the backend (or a scripted test double) answers,    *)
(* and how the connection settles the request.                             *)
(***************************************************************************)
Reply(failure, status, body) == [failure |-> failure, status |-> status, body |-> body]

NoReply == Reply("unsent", 0, NoBody)

OkStatuses == {200}

ErrorStatuses == {400, 503}

BackendMessages == {Undef, Str(""), Str("Invalid request")}

ErrorBodies ==
    {Body("json", "error", m) : m \in BackendMessages} \cup {HtmlBody, NoBody}

AxiosReplies ==
    {Reply("none", s, b) : s \in OkStatuses, b \in {OkBody, UnparsableBody, WrongShapeBody}}
    \cup {Reply("none", s, b) : s \in ErrorStatuses, b \in ErrorBodies}
    \cup {Reply(f, 0, NoBody) : f \in {"network", "timeout"}}

\* mockResolvedValueOnce({data}) and mockRejectedValueOnce(new Error(...))
MockReplies == {Reply("none", 200, OkBody), Reply("scripted", 0, NoBody)}

RepliesFor(conn) == IF conn = "mock" THEN MockReplies ELSE AxiosReplies

StatusMessage(status) ==
    IF status = 400 THEN "Request failed with status code 400"
    ELSE IF status = 503 THEN "Request failed with status code 503"
    ELSE "Request failed"

FailureMessage(failure) ==
    IF failure = "timeout" THEN "timeout exceeded" ELSE "Network Error"

\* validateStatus: status >= 200 && status < 300
ValidateStatus(status) == status >= 200 /\ status < 300

\* the connection's own settlement of a request, before any interceptor: the
\* body of a 2xx response is handed on as it is, whatever it holds
AxiosSettle(reply) ==
    IF reply.failure # "none"
    THEN Rejected(AxiosError(FailureMessage(reply.failure), NoResponse))
    ELSE IF ValidateStatus(reply.status)
    THEN Resolved(Value("response", reply.body, FALSE, "", FALSE))
    ELSE Rejected(AxiosError(StatusMessage(reply.status),
                             Response(TRUE, reply.status, reply.body)))

\* a jest mock of the connection: get/post settle as scripted, no interceptor runs
MockSettle(reply) ==
    IF reply.failure = "none"
    THEN Resolved(Value("response", reply.body, FALSE, "", FALSE))
    ELSE Rejected(PlainError("Network error"))

\* a variant that always takes the transport's own message
InterceptedMessageTransportOnly(error) == error.message

\* error.response?.data?.message || error.message
InterceptedMessage(error) ==
    OrElse(IF error.response.present THEN MessageOf(error.response.data) ELSE Undef,
           error.message)

\* error.response?.status
InterceptedCode(error) ==
    IF error.response.present THEN Num(error.response.status) ELSE Undef

\* error.response?.data
InterceptedDetails(error) ==
    IF error.response.present THEN error.response.data ELSE NoBody

\* a variant that rethrows the transport's error as it came
InterceptRethrow(error) == error

\* the response interceptor's rejection handler
Intercept(error) ==
    KagiError(InterceptedMessage(error), InterceptedCode(error), InterceptedDetails(error))

RECURSIVE ApplyInterceptors(_, _)
\* the chain of the n registered response interceptors: response => response on
\* fulfilment, Intercept on rejection
ApplyInterceptors(o, n) ==
    IF n = 0 \/ o.kind # "rejected" THEN o
    ELSE ApplyInterceptors(Rejected(Intercept(o.error)), n - 1)

\* await this.client.get(...) / this.client.post(...)
ClientRequest(cl, reply) ==
    IF cl.conn = "mock" THEN MockSettle(reply)
    ELSE ApplyInterceptors(AxiosSettle(reply), cl.interceptors)

(***************************************************************************)
(* Requests and calls.                                                     *)
(***************************************************************************)
Request(method, path, q, limit, url, text, cache, query) ==
    [method |-> method, path |-> path, q |-> q, limit |-> limit, url |-> url,
     text |-> text, cache |-> cache, query |-> query]

NoRequest == Request("", "", Undef, Undef, Undef, Undef, Undef, Undef)

\* what the caller passed: the tool name and the type of its argument object for
\* a tool invocation, the fields of the parameter object otherwise
Args(name, argt, query, q, limit, url, text, cache) ==
    [name |-> name, argt |-> argt, query |-> query, q |-> q, limit |-> limit,
     url |-> url, text |-> text, cache |-> cache]

NoArgs == Args("", "", Undef, Undef, Undef, Undef, Undef, Undef)

SearchArgs(q, limit) == Args("", "", Undef, q, limit, Undef, Undef, Undef)

SummarizeArgs(url, text, cache) == Args("", "", Undef, Undef, Undef, url, text, cache)

FastgptArgs(query, cache) == Args("", "", query, Undef, Undef, Undef, Undef, cache)

EnrichArgs(q) == Args("", "", Undef, q, Undef, Undef, Undef, Undef)

ToolArgs(name, argt, query, limit) ==
    Args(name, argt, query, Undef, limit, Undef, Undef, Undef)

Call(pc, entry, args, request) ==
    [pc |-> pc, entry |-> entry, args |-> args, request |-> request]

Idle == Call("idle", "", NoArgs, NoRequest)

\* a settled call: its entry point and arguments, the request it issued and the
\* reply to it (if any), how the client operation under it settled (inner: for
\* testConnection and the tool handler, their await of this.search) and how the
\* call itself settled for its caller
Settled(entry, args, request, reply, inner, outcome) ==
    [entry |-> entry, args |-> args, request |-> request, reply |-> reply,
     inner |-> inner, outcome |-> outcome]

NoSettled == Settled("", NoArgs, NoRequest, NoReply, NoOutcome, NoOutcome)

(***************************************************************************)
(* KagiAPI: the parameter shaping and validation of each operation.        *)
(***************************************************************************)
\* params.limit || 10
LimitOrDefault(limit) == OrElse(limit, Num(DEFAULT_LIMIT))

\* search: this.client.get('/search', {params: {q, limit}})
SearchRequest(q, limit) ==
    Request("GET", "/search", q, LimitOrDefault(limit), Undef, Undef, Undef, Undef)

\* params.cache !== undefined ? String(params.cache) : undefined
CacheParam(cache) == IF cache # Undef THEN Str(StringOf(cache)) ELSE Undef

\* a variant without the second check
SummarizeInputErrorFirstOnly(url, text) ==
    IF ~Truthy(url) /\ ~Truthy(text)
    THEN PlainError("Either url or text parameter is required")
    ELSE NoErr

\* summarize: the two input checks, in order
SummarizeInputError(url, text) ==
    IF ~Truthy(url) /\ ~Truthy(text)
    THEN PlainError("Either url or text parameter is required")
    ELSE IF Truthy(url) /\ Truthy(text)
    THEN PlainError("Cannot provide both url and text parameters")
    ELSE NoErr

\* summarize: this.client.get('/summarize', {params: {...params, cache}})
SummarizeRequest(url, text, cache) ==
    Request("GET", "/summarize", Undef, Undef, url, text, CacheParam(cache), Undef)

\* fastgpt: this.client.post('/fastgpt', {query, cache})
FastgptRequest(query, cache) ==
    Request("POST", "/fastgpt", Undef, Undef, Undef, Undef, CacheParam(cache), query)

\* enrich: this.client.get('/enrich/news', {params: {q}})
EnrichRequest(q) ==
    Request("GET", "/enrich/news", q, Undef, Undef, Undef, Undef, Undef)

\* return response.data
ResponseData(o) ==
    IF o.kind = "resolved"
    THEN Resolved(Value("data", o.value.body, FALSE, "", FALSE))
    ELSE o

\* a variant that catches only KagiError and rethrows the rest
TestConnectionCatchKagiError(o) ==
    IF o.kind = "resolved"
    THEN Resolved(Value("boolean", NoBody, TRUE, "", FALSE))
    ELSE IF o.error.cls = "KagiError"
    THEN Resolved(Value("boolean", NoBody, FALSE, "", FALSE))
    ELSE o

\* testConnection: try { await this.search(...); return true } catch { return false }
TestConnectionResult(o) ==
    IF o.kind = "resolved"
    THEN Resolved(Value("boolean", NoBody, TRUE, "", FALSE))
    ELSE Resolved(Value("boolean", NoBody, FALSE, "", FALSE))

(***************************************************************************)
(* KagiServer: the CallToolRequestSchema handler.                          *)
(***************************************************************************)
\* !request.params.arguments || typeof request.params.arguments !== 'object'
ArgumentsInvalid(argt) == argt \notin {"object", "array"}

\* a variant that only rejects a missing query: query === undefined
QueryUndefined(query) == query = Undef

\* typeof query !== 'string'
QueryInvalid(query) == query.t # "string"

\* a variant with exclusive bounds: limit <= 1 || limit >= 100
LimitInvalidExclusive(limit) ==
    limit.t # "number" \/ limit.n <= MIN_LIMIT \/ limit.n >= MAX_LIMIT

\* typeof limit !== 'number' || limit < 1 || limit > 100
LimitInvalid(limit) ==
    limit.t # "number" \/ limit.n < MIN_LIMIT \/ limit.n > MAX_LIMIT

\* the protocol fault the handler throws before it calls search, if any
ToolFault(name, argt, query, limit) ==
    IF name # "kagi_search"
    THEN McpError("MethodNotFound", "Unknown tool")
    ELSE IF ArgumentsInvalid(argt)
    THEN McpError("InvalidParams", "Invalid arguments for kagi_search")
    ELSE IF QueryInvalid(query)
    THEN McpError("InvalidParams", "Query must be a string")
    ELSE IF limit # Undef /\ LimitInvalid(limit)
    THEN McpError("InvalidParams", "Limit must be a number between 1 and 100")
    ELSE NoErr

\* a variant without the catch: every rejection of search propagates
ToolResultNoCatch(o) ==
    IF o.kind = "resolved"
    THEN Resolved(Value("toolResult", o.value.body, FALSE, "", FALSE))
    ELSE o

\* the handler's try/catch around await this.kagiApi.search(searchParams)
ToolResult(o) ==
    IF o.kind = "resolved"
    THEN Resolved(Value("toolResult", o.value.body, FALSE, "", FALSE))
    ELSE IF o.error.cls = "KagiError"
    THEN Resolved(Value("content", NoBody, FALSE,
                        "Kagi API error: " \o StringOf(o.error.message), TRUE))
    ELSE o

\* what the call's entry point does with the settled request
Continue(entry, o) ==
    IF entry = "testConnection" THEN TestConnectionResult(ResponseData(o))
    ELSE IF entry = "callTool" THEN ToolResult(ResponseData(o))
    ELSE ResponseData(o)

(***************************************************************************)
(* The inputs the callers draw from.                                       *)
(***************************************************************************)
\* how many client calls may await their response at once
MaxInFlight == 1

Slots == 1..MaxInFlight

ApiKeys == {Undef, Str(""), Str("test-api-key")}

BaseURLs == {Undef, Str(""), Str("https://proxy.example/api")}

Timeouts == {Undef, Num(0), Num(5000)}

Configs == {Config(k, b, t) : k \in ApiKeys, b \in BaseURLs, t \in Timeouts}

Connections == {"axios", "mock"}

Queries == {Str("kagi"), Str("test")}

SearchLimits == {Undef, Num(0), Num(5)}

Urls == {Undef, Str(""), Str("https://example.com")}

Texts == {Undef, Str(""), Str("content")}

Caches == {Undef, Bool(FALSE)}

ToolNames == {"kagi_search", "kagi_summarize"}

ArgumentTypes == {"undefined", "null", "string", "array", "object"}

ToolQueries == {Undef, Num(7), Str("kagi")}

ToolLimits ==
    {Undef, Null, Str("5"), Num(0), Num(MIN_LIMIT), Num(50), Num(MAX_LIMIT),
     Num(MAX_LIMIT + 1)}

\* only an object carries fields
ToolInputs ==
    {ToolArgs(n, "object", qy, l) : n \in ToolNames, qy \in ToolQueries, l \in ToolLimits}
    \cup {ToolArgs(n, t, Undef, Undef) : n \in ToolNames, t \in ArgumentTypes \ {"object"}}

(***************************************************************************)
(* The state machine.                                                      *)
(***************************************************************************)
Init ==
    /\ client = NoClient
    /\ calls = [c \in Slots |-> Idle]
    /\ wire = [c \in Slots |-> 0]
    /\ settled = NoSettled

\* new KagiAPI(config)
Construct(config, conn) ==
    /\ client.state = "none"
    /\ client' = NewKagiAPI(config, conn)
    /\ UNCHANGED <<calls, wire, settled>>

\* a caller may start a call on slot c once the last settled call was taken
CanStart(c) ==
    /\ client.state = "ready"
    /\ calls[c].pc = "idle"
    /\ settled = NoSettled

\* the call issues its one request and awaits it
Await(c, entry, args, request) ==
    /\ calls' = [calls EXCEPT ![c] = Call("awaiting", entry, args, request)]
    /\ wire' = [wire EXCEPT ![c] = @ + 1]
    /\ UNCHANGED <<client, settled>>

\* the call throws before it issues any request
Throw(entry, args, error) ==
    /\ settled' = Settled(entry, args, NoRequest, NoReply, NoOutcome, Rejected(error))
    /\ UNCHANGED <<client, calls, wire>>

\* kagi.search({q, limit})
Search(c, q, limit) ==
    /\ CanStart(c)
    /\ Await(c, "search", SearchArgs(q, limit), SearchRequest(q, limit))

\* kagi.summarize({url, text, cache})
Summarize(c, url, text, cache) ==
    /\ CanStart(c)
    /\ IF SummarizeInputError(url, text) # NoErr
       THEN Throw("summarize", SummarizeArgs(url, text, cache),
                  SummarizeInputError(url, text))
       ELSE Await(c, "summarize", SummarizeArgs(url, text, cache),
                  SummarizeRequest(url, text, cache))

\* kagi.fastgpt({query, cache})
Fastgpt(c, query, cache) ==
    /\ CanStart(c)
    /\ Await(c, "fastgpt", FastgptArgs(query, cache), FastgptRequest(query, cache))

\* kagi.enrich({q})
Enrich(c, q) ==
    /\ CanStart(c)
    /\ Await(c, "enrich", EnrichArgs(q), EnrichRequest(q))

\* kagi.testConnection(): this.search({q: 'test', limit: 1})
TestConnection(c) ==
    /\ CanStart(c)
    /\ Await(c, "testConnection", NoArgs, SearchRequest(Str("test"), Num(1)))

\* a tools/call request reaches the handler; searchParams is {q: query} and,
\* when limit is given, limit
CallTool(c, a) ==
    /\ CanStart(c)
    /\ IF ToolFault(a.name, a.argt, a.query, a.limit) # NoErr
       THEN Throw("callTool", a, ToolFault(a.name, a.argt, a.query, a.limit))
       ELSE Await(c, "callTool", a, SearchRequest(a.query, a.limit))

\* a variant that issues the request once more when it fails the first time
DeliverWithRetry(c, reply) ==
    /\ calls[c].pc = "awaiting"
    /\ reply \in RepliesFor(client.conn)
    /\ IF ClientRequest(client, reply).kind = "rejected" /\ wire[c] < 2
       THEN /\ wire' = [wire EXCEPT ![c] = @ + 1]
            /\ UNCHANGED <<client, calls, settled>>
       ELSE /\ settled' = Settled(calls[c].entry, calls[c].args, calls[c].request, reply,
                                  ResponseData(ClientRequest(client, reply)),
                                  Continue(calls[c].entry, ClientRequest(client, reply)))
            /\ calls' = [calls EXCEPT ![c] = Idle]
            /\ wire' = [wire EXCEPT ![c] = 0]
            /\ UNCHANGED client

\* the request of call c settles and the call runs to its end
Deliver(c, reply) ==
    /\ calls[c].pc = "awaiting"
    /\ reply \in RepliesFor(client.conn)
    /\ settled' = Settled(calls[c].entry, calls[c].args, calls[c].request, reply,
                          ResponseData(ClientRequest(client, reply)),
                          Continue(calls[c].entry, ClientRequest(client, reply)))
    /\ calls' = [calls EXCEPT ![c] = Idle]
    /\ wire' = [wire EXCEPT ![c] = 0]
    /\ UNCHANGED client

\* the caller takes the settled call's result
Return ==
    /\ settled # NoSettled
    /\ settled' = NoSettled
    /\ UNCHANGED <<client, calls, wire>>

Next ==
    \/ \E config \in Configs, conn \in Connections : Construct(config, conn)
    \/ \E c \in Slots, q \in Queries, limit \in SearchLimits : Search(c, q, limit)
    \/ \E c \in Slots, url \in Urls, text \in Texts, cache \in Caches :
          Summarize(c, url, text, cache)
    \/ \E c \in Slots, query \in Queries, cache \in Caches : Fastgpt(c, query, cache)
    \/ \E c \in Slots, q \in Queries : Enrich(c, q)
    \/ \E c \in Slots : TestConnection(c)
    \/ \E c \in Slots, a \in ToolInputs : CallTool(c, a)
    \/ \E c \in Slots, reply \in AxiosReplies \cup MockReplies : Deliver(c, reply)
    \/ Return

Spec == Init /\ [][Next]_vars

(***************************************************************************)
(* Several client calls in flight at once on one client.                   *)
(***************************************************************************)
\* how many client calls a caller issues concurrently
MaxConcurrent == 2

ConcurrentSlots == 1..MaxConcurrent

ConcurrentConfigs ==
    {Config(Str("test-api-key"), Undef, Undef),
     Config(Str("test-api-key"), Str("https://proxy.example/api"), Num(5000))}

ConcurrentReplies ==
    {Reply("none", 200, OkBody),
     Reply("none", 503, Body("json", "error", Str("Invalid request"))),
     Reply("timeout", 0, NoBody)}
    \cup MockReplies

ConcurrentInit ==
    /\ client = NoClient
    /\ calls = [c \in ConcurrentSlots |-> Idle]
    /\ wire = [c \in ConcurrentSlots |-> 0]
    /\ settled = NoSettled

ConcurrentNext ==
    \/ \E config \in ConcurrentConfigs, conn \in Connections : Construct(config, conn)
    \/ \E c \in ConcurrentSlots, q \in Queries : Search(c, q, Num(5))
    \/ \E c \in ConcurrentSlots, url \in {Undef, Str("https://example.com")} :
          Summarize(c, url, Undef, Undef)
    \/ \E c \in ConcurrentSlots : Fastgpt(c, Str("kagi"), Undef)
    \/ \E c \in ConcurrentSlots : Enrich(c, Str("kagi"))
    \/ \E c \in ConcurrentSlots : TestConnection(c)
    \/ \E c \in ConcurrentSlots, reply \in ConcurrentReplies : Deliver(c, reply)
    \/ Return

SpecConcurrent == ConcurrentInit /\ [][ConcurrentNext]_vars

(***************************************************************************)
(* Properties.                                                             *)
(***************************************************************************)
ClientOps == {"search", "summarize", "fastgpt", "enrich"}

\* the settled call is a client operation whose request went through the
\* connection that axios.create built and the constructor put its interceptor on
ThroughConnection ==
    /\ settled.entry \in ClientOps
    /\ settled.reply # NoReply
    /\ client.conn = "axios"

\* no response at all, or a response whose status is not 2xx
TransportFailed(reply) ==
    \/ reply.failure \in {"network", "timeout"}
    \/ reply.failure = "none" /\ reply.status \notin 200..299

\* a 2xx response whose body is not of the operation's response type
MalformedReply(reply) ==
    /\ reply.failure = "none"
    /\ reply.status \in 200..299
    /\ reply.body # OkBody

RejectedWithKagiError(o) == o.kind = "rejected" /\ o.error.cls = "KagiError"

\* C1 as stated: every failure on the backend call path (transport failure,
\* timeout, non-2xx status, malformed backend response) of search, summarize,
\* fastgpt and enrich reaches the caller as a KagiError, never as a raw transport
\* exception and never as a successful result.
C1_AsStated ==
    ThroughConnection /\ (TransportFailed(settled.reply) \/ MalformedReply(settled.reply))
        => RejectedWithKagiError(settled.outcome)

\* C1, amended: every failure the transport reports (no response, timeout,
\* non-2xx status) reaches the caller of search, summarize, fastgpt and enrich as
\* a KagiError; a 2xx response with a malformed body is no failure to the client
\* and is returned to the caller as the operation's result, unchanged.
C1_TransportFailuresNormalized ==
    ThroughConnection =>
        /\ TransportFailed(settled.reply) => RejectedWithKagiError(settled.outcome)
        /\ MalformedReply(settled.reply) =>
              /\ settled.outcome.kind = "resolved"
              /\ settled.outcome.value.body = settled.reply.body

C1_Witness ==
    /\ ThroughConnection
    /\ settled.entry = "fastgpt"
    /\ settled.reply.failure = "timeout"
    /\ RejectedWithKagiError(settled.outcome)

\* the transport's own message for a failed request
TransportMessage(reply) ==
    IF reply.failure = "none" THEN Str(StatusMessage(reply.status))
    ELSE Str(FailureMessage(reply.failure))

\* the backend's reported message field, undefined when the body has none
BackendMessage(reply) ==
    IF reply.failure = "none" /\ reply.body.kind = "json" THEN reply.body.message
    ELSE Undef

\* code and details of the KagiError of a failed HTTP call
CodeAndDetailsFromResponse ==
    /\ settled.outcome.error.code =
          (IF settled.reply.failure = "none" THEN Num(settled.reply.status) ELSE Undef)
    /\ settled.outcome.error.details =
          (IF settled.reply.failure = "none" THEN settled.reply.body ELSE NoBody)

\* C7 as stated: the KagiError of a failed HTTP call has message = the backend's
\* message field if present, otherwise the transport's message; code = the HTTP
\* status if a response was received, otherwise absent; details = the backend's
\* error payload if present, otherwise absent.
C7_AsStated ==
    ThroughConnection /\ TransportFailed(settled.reply) =>
        /\ settled.outcome.error.message =
              (IF BackendMessage(settled.reply) # Undef
               THEN BackendMessage(settled.reply)
               ELSE TransportMessage(settled.reply))
        /\ CodeAndDetailsFromResponse

\* C7, amended: message = the backend's message field if present and not empty,
\* otherwise the transport's message; code and details as stated.
C7_KagiErrorFields ==
    ThroughConnection /\ TransportFailed(settled.reply) =>
        /\ RejectedWithKagiError(settled.outcome)
        /\ settled.outcome.error.message =
              (IF BackendMessage(settled.reply) \notin {Undef, Str("")}
               THEN BackendMessage(settled.reply)
               ELSE TransportMessage(settled.reply))
        /\ CodeAndDetailsFromResponse

C7_Witness ==
    /\ ThroughConnection
    /\ settled.reply = Reply("none", 400, Body("json", "error", Str("Invalid request")))
    /\ settled.outcome.error =
          KagiError(Str("Invalid request"), Num(400),
                    Body("json", "error", Str("Invalid request")))

\* the calls that have issued their request and await its settlement
Awaiting(entry) == {c \in Slots : calls[c].pc = "awaiting" /\ calls[c].entry = entry}

\* the tool invocation threw this protocol fault and search was never called
FaultWithoutSearch(code) ==
    /\ settled.outcome.kind = "rejected"
    /\ settled.outcome.error.cls = "McpError"
    /\ settled.outcome.error.code = Str(code)
    /\ settled.request = NoRequest
    /\ settled.inner = NoOutcome

\* C2: for a kagi_search invocation that passed validation: if search rejects
\* with a KagiError with message m the invocation returns a result with isError
\* set and the text "Kagi API error: " followed by m; if search rejects with any
\* other error that same error propagates; if search resolves the result carries
\* the client's raw response object and no error flag.
C2_ToolResultOfSearch ==
    settled.entry = "callTool" /\ settled.request # NoRequest =>
        /\ RejectedWithKagiError(settled.inner) =>
              /\ settled.outcome.kind = "resolved"
              /\ settled.outcome.value.shape = "content"
              /\ settled.outcome.value.isError
              /\ settled.outcome.value.text =
                    "Kagi API error: " \o settled.inner.error.message.s
        /\ settled.inner.kind = "rejected" /\ settled.inner.error.cls # "KagiError" =>
              /\ settled.outcome.kind = "rejected"
              /\ settled.outcome.error = settled.inner.error
        /\ settled.inner.kind = "resolved" =>
              /\ settled.outcome.kind = "resolved"
              /\ settled.outcome.value.shape = "toolResult"
              /\ settled.outcome.value.body = settled.inner.value.body
              /\ ~settled.outcome.value.isError

C2_Witness ==
    /\ settled.entry = "callTool"
    /\ RejectedWithKagiError(settled.inner)
    /\ settled.inner.error.message = Str("Invalid request")
    /\ settled.outcome.kind = "resolved"
    /\ settled.outcome.value.text = "Kagi API error: Invalid request"

\* a kagi_search invocation whose argument object carries a string query
WellFormedQuery(a) == a.name = "kagi_search" /\ a.argt = "object" /\ a.query.t = "string"

\* the limit is absent, or a number within [1, 100]
AcceptableLimit(limit) ==
    \/ limit = Undef
    \/ limit.t = "number" /\ limit.n >= 1 /\ limit.n <= 100

\* the outbound request of an accepted invocation
ToolRequestCarries(a, request) ==
    /\ request.method = "GET"
    /\ request.path = "/search"
    /\ request.q = a.query
    /\ request.limit = (IF a.limit = Undef THEN Num(10) ELSE a.limit)

\* C3: for a kagi_search invocation with a string query: with no limit it is
\* accepted and the /search request carries limit=10; with a limit that is a
\* number within [1, 100] it is accepted and that limit is passed through; with
\* any other limit it fails with an invalid-params fault and no request is issued.
C3_ToolLimit ==
    /\ \A c \in Awaiting("callTool") :
          /\ AcceptableLimit(calls[c].args.limit)
          /\ ToolRequestCarries(calls[c].args, calls[c].request)
    /\ settled.entry = "callTool" /\ WellFormedQuery(settled.args) =>
          IF AcceptableLimit(settled.args.limit)
          THEN ToolRequestCarries(settled.args, settled.request)
          ELSE FaultWithoutSearch("InvalidParams")

C3_Witness ==
    /\ settled.entry = "callTool"
    /\ settled.args.limit = Num(100)
    /\ settled.request.limit = Num(100)
    /\ settled.outcome.kind = "resolved"

\* C4: a request naming another tool fails with method-not-found whatever its
\* arguments; a request naming kagi_search whose argument object is missing or
\* no object, or whose query is no string, fails with invalid-params; in each
\* case search is never called and no request is issued.
C4_ToolFaults ==
    /\ \A c \in Awaiting("callTool") : WellFormedQuery(calls[c].args)
    /\ settled.entry = "callTool" /\ settled.args.name # "kagi_search" =>
          FaultWithoutSearch("MethodNotFound")
    /\ /\ settled.entry = "callTool"
       /\ settled.args.name = "kagi_search"
       /\ settled.args.argt # "object" \/ settled.args.query.t # "string"
       => FaultWithoutSearch("InvalidParams")

C4_Witness ==
    /\ settled.entry = "callTool"
    /\ settled.args.name = "kagi_search"
    /\ settled.args.argt = "object"
    /\ settled.args.query = Num(7)
    /\ FaultWithoutSearch("InvalidParams")

\* the summarize call failed with this plain input error before any request
InputErrorWithoutRequest(message) ==
    /\ settled.outcome.kind = "rejected"
    /\ settled.outcome.error.cls = "Error"
    /\ settled.outcome.error.message = Str(message)
    /\ settled.request = NoRequest
    /\ settled.reply = NoReply

SummarizeRequestIssued(request) == request.method = "GET" /\ request.path = "/summarize"

\* the parameter is given: it is not undefined
Given(v) == v # Undef

\* the parameter is given and is not the empty string
GivenNonEmpty(v) == v # Undef /\ v # Str("")

SearchRequestCarries(a, request) ==
    /\ request.method = "GET"
    /\ request.path = "/search"
    /\ request.q = a.q
    /\ request.limit = (IF a.limit # Undef THEN a.limit ELSE Num(10))

\* C6: the GET /search request of search({q, limit}) carries q unchanged and a
\* limit equal to the caller's limit whenever one is supplied, and equal to 10
\* only when the limit is absent.
C6_AsStated ==
    /\ \A c \in Awaiting("search") : SearchRequestCarries(calls[c].args, calls[c].request)
    /\ settled.entry = "search" => SearchRequestCarries(settled.args, settled.request)

\* C8: testConnection never fails: it performs one search with query "test" and
\* limit 1 and returns true exactly when that search completes without error,
\* false when it rejects with whatever kind of error.
C8_TestConnection ==
    /\ \A c \in Awaiting("testConnection") :
          calls[c].request =
              Request("GET", "/search", Str("test"), Num(1), Undef, Undef, Undef, Undef)
    /\ settled.entry = "testConnection" =>
          /\ settled.request =
                Request("GET", "/search", Str("test"), Num(1), Undef, Undef, Undef, Undef)
          /\ settled.outcome.kind = "resolved"
          /\ settled.outcome.value.shape = "boolean"
          /\ settled.outcome.value.bool = (settled.inner.kind = "resolved")
          /\ settled.inner.kind \in {"resolved", "rejected"}

C8_Witness ==
    /\ settled.entry = "testConnection"
    /\ settled.inner.kind = "rejected"
    /\ settled.inner.error.cls = "Error"
    /\ settled.outcome.kind = "resolved"
    /\ settled.outcome.value.bool = FALSE

\* C9: constructing the client with an absent or empty credential fails with the
\* plain error 'API key is required' whatever the base endpoint and timeout are,
\* before the connection is created, before the interceptor is registered and
\* before any network activity.
C9_MissingCredential ==
    client.state # "none" /\ client.config.apiKey \in {Undef, Str("")} =>
        /\ client.state = "failed"
        /\ client.error.cls = "Error"
        /\ client.error.message = Str("API key is required")
        /\ client.created = 0
        /\ client.interceptors = 0
        /\ \A c \in Slots : calls[c] = Idle
        /\ settled = NoSettled

C9_Witness ==
    /\ client.state = "failed"
    /\ client.config = Config(Str(""), Str("https://proxy.example/api"), Num(5000))
    /\ client.created = 0

\* C10: constructing the client with a non-empty credential c configures the
\* connection with Authorization = "Bot " + c and Content-Type = application/json,
\* with the base URL equal to the override whenever one is supplied and the
\* default otherwise, with the timeout equal to the override whenever one is
\* supplied and the default 30000 otherwise, and registers the response error
\* interceptor exactly once.
C10_AsStated ==
    client.state # "none" /\ client.config.apiKey \notin {Undef, Str("")} =>
        /\ client.state = "ready"
        /\ client.authorization = "Bot " \o client.config.apiKey.s
        /\ client.contentType = "application/json"
        /\ client.baseURL =
              (IF client.config.baseURL # Undef THEN client.config.baseURL
               ELSE Str("https://kagi.com/api/v0"))
        /\ client.timeout =
              (IF client.config.timeout # Undef THEN client.config.timeout
               ELSE Num(30000))
        /\ client.created = 1
        /\ client.interceptors = 1

\* a call in progress has exactly one request on the wire, an idle slot none
OneRequestEach ==
    \A c \in DOMAIN calls :
        /\ calls[c].pc = "awaiting" => wire[c] = 1 /\ calls[c].request # NoRequest
        /\ calls[c].pc = "idle" => wire[c] = 0

\* a call that issued a request settled on a reply to it, and how the client
\* operation under it settled is read off that reply: fulfilled with the
\* reply's body on a 2xx response, rejected otherwise
OutcomeOfOwnReply ==
    /\ settled.request = NoRequest => settled.reply = NoReply
    /\ settled.request # NoRequest =>
          /\ settled.reply # NoReply
          /\ settled.inner.kind \in {"resolved", "rejected"}
          /\ settled.inner.kind = "resolved" <=>
                (settled.reply.failure = "none" /\ settled.reply.status \in 200..299)
          /\ settled.inner.kind = "resolved" =>
                settled.inner.value.body = settled.reply.body
          /\ settled.entry # "testConnection" /\ settled.entry # "callTool" =>
                settled.outcome = settled.inner

\* one step of the client as the calls in flight see it: the constructed
\* connection context stays as it is; a call that awaits its request either
\* keeps awaiting it, with no further request, or settles, on its own request
\* and arguments, while every other call stays as it was; a call that starts
\* puts one request on the wire
ConcurrentStep ==
    /\ client.state = "ready" => client' = client
    /\ \A c \in DOMAIN calls :
          /\ calls[c].pc = "awaiting" =>
                \/ calls'[c] = calls[c] /\ wire'[c] = wire[c]
                \/ /\ calls'[c] = Idle
                   /\ wire[c] = 1
                   /\ settled'.entry = calls[c].entry
                   /\ settled'.args = calls[c].args
                   /\ settled'.request = calls[c].request
                   /\ settled'.reply # NoReply
                   /\ \A d \in DOMAIN calls \ {c} :
                         calls'[d] = calls[d] /\ wire'[d] = wire[d]
          /\ calls[c].pc = "idle" /\ calls'[c].pc = "awaiting" => wire'[c] = 1

\* C11: in any interleaving of concurrently issued client operations on one
\* client, each call that passes input validation issues exactly one HTTP
\* request, completes only after that request's response or failure arrives,
\* with an outcome determined by its own request alone, never issues a retry or
\* a second request, and never modifies the shared connection context.
C11_ConcurrentCalls ==
    /\ [](OneRequestEach /\ OutcomeOfOwnReply)
    /\ [][ConcurrentStep]_vars

C11_Witness ==
    /\ client.conn = "axios"
    /\ settled.entry = "summarize"
    /\ settled.reply.failure = "timeout"
    /\ settled.outcome.kind = "rejected"
    /\ \E c \in DOMAIN calls :
          /\ calls[c].pc = "awaiting"
          /\ calls[c].entry = "fastgpt"
          /\ wire[c] = 1

====
